---------------------------- MODULE Spec2Model ----------------------------
(***************************************************************************)
(* A model of bulbs' Neo4j Server client (bulbs/neo4jserver/client.py):   *)
(* Neo4jResult, Neo4jResponse and the Neo4jClient facade.                  *)
(*                                                                         *)
(* Python strings are sequences of one-character strings, so that          *)
(* rpartition, split, rstrip, int(), str() and the placeholder regular     *)
(* expression are computed as Python computes them.  Python values are     *)
(* tagged records; a dict is a function from key names to values.          *)
(***************************************************************************)
EXTENDS Integers, Sequences, FiniteSets, TLC

VARIABLES
    config,   \* the Config object the client was constructed with
    pc,       \* "idle" | "returned" | "raised" | "result" | "helper"
    call,     \* the facade operation called last and its arguments
    sent,     \* the requests handed to the dispatcher during that call
    reply,    \* the server's reply to the last request sent
    resp,     \* the Response the call returned (NoResponse when it raised)
    err,      \* the error the call raised ("none" when it returned)
    cur,      \* the Result the caller holds
    yielded,  \* the Results the caller took from resp.results so far
    acc       \* the last accessor or helper call and what it gave

vars == <<config, pc, call, sent, reply, resp, err, cur, yielded, acc>>

----------------------------------------------------------------------------
(* Bounds of the model *)

\* longest string ID drawn as an input
MaxIdLen == 3
\* longest free-form locator, or tail of a locator under a resource of the server
MaxTail == 2
\* longest JSON array body, and most rows of a tabular body
MaxArr == 2

----------------------------------------------------------------------------
(* Python strings *)

Digits == <<"0", "1", "2", "3", "4", "5", "6", "7", "8", "9">>

DigitChars == {Digits[i] : i \in 1..10}

\* the characters of Python's str.isspace() that the model's inputs use
Whitespace == {" ", "\n"}

RECURSIVE Join(_, _)
\* sep.join(segments)
Join(segments, sep) ==
    IF segments = <<>> THEN <<>>
    ELSE IF Len(segments) = 1 THEN Head(segments)
    ELSE Head(segments) \o sep \o Join(Tail(segments), sep)

\* the positions of character c in s
Positions(s, c) == {i \in 1..Len(s) : s[i] = c}

Max(S) == CHOOSE m \in S : \A n \in S : n <= m

Min(S) == CHOOSE m \in S : \A n \in S : m <= n

\* s.rpartition(c): <<head, sep, tail>> around the last c, or <<"", "", s>>
rpartition(s, c) ==
    IF Positions(s, c) = {} THEN << <<>>, <<>>, s >>
    ELSE LET p == Max(Positions(s, c))
         IN << SubSeq(s, 1, p - 1), <<c>>, SubSeq(s, p + 1, Len(s)) >>

RECURSIVE split(_, _)
\* s.split(c): the segments between the occurrences of c
split(s, c) ==
    IF Positions(s, c) = {} THEN << s >>
    ELSE LET p == Min(Positions(s, c))
         IN << SubSeq(s, 1, p - 1) >> \o split(SubSeq(s, p + 1, Len(s)), c)

RECURSIVE rstrip(_, _)
\* s.rstrip(c)
rstrip(s, c) ==
    IF s # <<>> /\ s[Len(s)] = c THEN rstrip(SubSeq(s, 1, Len(s) - 1), c) ELSE s

RECURSIVE strip(_)
\* s.strip(): leading and trailing whitespace removed
strip(s) ==
    IF s # <<>> /\ s[1] \in Whitespace THEN strip(Tail(s))
    ELSE IF s # <<>> /\ s[Len(s)] \in Whitespace THEN strip(SubSeq(s, 1, Len(s) - 1))
    ELSE s

RECURSIVE NatToStr(_)
NatToStr(n) ==
    IF n < 10 THEN << Digits[n + 1] >>
    ELSE NatToStr(n \div 10) \o << Digits[(n % 10) + 1] >>

\* str(n) of a Python int
IntToStr(n) == IF n < 0 THEN <<"-">> \o NatToStr(0 - n) ELSE NatToStr(n)

DigitValue(c) == CHOOSE d \in 0..9 : Digits[d + 1] = c

RECURSIVE DigitsToNat(_)
DigitsToNat(s) ==
    IF s = <<>> THEN 0
    ELSE 10 * DigitsToNat(SubSeq(s, 1, Len(s) - 1)) + DigitValue(s[Len(s)])

AllDigits(s) == s # <<>> /\ \A i \in 1..Len(s) : s[i] \in DigitChars

\* int(s), base 10: surrounding whitespace is dropped, one sign is allowed,
\* and what is left must be digits; anything else raises ValueError
int(s) ==
    LET t == strip(s)
        signed == t # <<>> /\ t[1] \in {"-", "+"}
        body == IF signed THEN Tail(t) ELSE t
    IN IF ~AllDigits(body) THEN [ok |-> FALSE, error |-> "ValueError"]
       ELSE [ok |-> TRUE,
             value |-> IF signed /\ t[1] = "-" THEN 0 - DigitsToNat(body)
                       ELSE DigitsToNat(body)]

----------------------------------------------------------------------------
(* Python values *)

None == [t |-> "None"]

PyStr(s) == [s |-> s, t |-> "str"]

PyInt(i) == [i |-> i, t |-> "int"]

PyBool(b) == [t |-> "bool", b |-> b]

PyList(l) == [t |-> "list", l |-> l]

PyDict(d) == [d |-> d, t |-> "dict"]

EmptyDict == PyDict(<<>>)

\* bool(x): None, False, 0, "", [] and {} are false, everything else true
Truthy(x) ==
    CASE x.t = "None" -> FALSE
      [] x.t = "bool" -> x.b
      [] x.t = "int"  -> x.i # 0
      [] x.t = "str"  -> x.s # <<>>
      [] x.t = "list" -> x.l # <<>>
      [] x.t = "dict" -> DOMAIN x.d # {}
      [] OTHER        -> TRUE

\* d.get(k) of a dict
dict_get(d, k) == IF k \in DOMAIN d.d THEN d.d[k] ELSE None

\* str(x) of a string or an int
str(x) == IF x.t = "int" THEN IntToStr(x.i) ELSE x.s

\* what a Python call gives: a value, or the exception it raised
Return(v) == [ok |-> TRUE, value |-> v]

Raise(e) == [ok |-> FALSE, error |-> e]

----------------------------------------------------------------------------
(* The module's constants *)

vertex_path == <<"n", "o", "d", "e">>

edge_path == <<"r", "e", "l", "a", "t", "i", "o", "n", "s", "h", "i", "p">>

index_path == <<"i", "n", "d", "e", "x">>

gremlin_path ==
    <<"e", "x", "t", "/", "G", "r", "e", "m", "l", "i", "n", "P", "l", "u", "g",
      "i", "n", "/", "g", "r", "a", "p", "h", "d", "b", "/", "e", "x", "e", "c",
      "u", "t", "e", "_", "s", "c", "r", "i", "p", "t">>

cypher_path ==
    <<"e", "x", "t", "/", "C", "y", "p", "h", "e", "r", "P", "l", "u", "g", "i",
      "n", "/", "g", "r", "a", "p", "h", "d", "b", "/", "e", "x", "e", "c", "u",
      "t", "e", "_", "q", "u", "e", "r", "y">>

----------------------------------------------------------------------------
(* urlsplit(uri).path, as the standard library computes it *)

SchemeChars ==
    {"a", "b", "c", "d", "e", "f", "g", "h", "i", "j", "k", "l", "m", "n", "o",
     "p", "q", "r", "s", "t", "u", "v", "w", "x", "y", "z", "+", "-", "."}
    \cup DigitChars

\* s from position p on
From(s, p) == SubSeq(s, p, Len(s))

\* s up to the first character of cs (all of s when there is none)
UpTo(s, cs) ==
    LET ps == {i \in 1..Len(s) : s[i] \in cs}
    IN IF ps = {} THEN s ELSE SubSeq(s, 1, Min(ps) - 1)

urlsplit_path(url) ==
    LET colons == Positions(url, ":")
        i == IF colons = {} THEN 0 ELSE Min(colons)
        hasScheme == /\ i > 1
                     /\ \A j \in 1..(i - 1) : url[j] \in SchemeChars
                     /\ ~AllDigits(From(url, i + 1))
        rest == IF hasScheme THEN From(url, i + 1) ELSE url
        hasNetloc == Len(rest) >= 2 /\ rest[1] = "/" /\ rest[2] = "/"
        afterNetloc ==
            IF hasNetloc
            THEN LET tail == From(rest, 3)
                 IN From(tail, Len(UpTo(tail, {"/", "?", "#"})) + 1)
            ELSE rest
    IN UpTo(afterNetloc, {"#", "?"})

----------------------------------------------------------------------------
(* Neo4jResult *)

_get_data(result) == IF result.t = "dict" THEN dict_get(result, "data") ELSE None

\* Neo4jResult.__init__
Neo4jResult(result) == [raw |-> result, data |-> _get_data(result)]

\* type_map read with a default, as type_map.get(neo4j_type, "vertex") (mutant)
type_map_default(neo4j_type) ==
    IF neo4j_type.t = "str" /\ neo4j_type.s = edge_path THEN Return(PyStr(<<"e", "d", "g", "e">>))
    ELSE Return(PyStr(<<"v", "e", "r", "t", "e", "x">>))

\* self.type_map[neo4j_type]: a dict subscript, KeyError for any other key
type_map(neo4j_type) ==
    IF neo4j_type.t = "str" /\ neo4j_type.s = vertex_path THEN Return(PyStr(<<"v", "e", "r", "t", "e", "x">>))
    ELSE IF neo4j_type.t = "str" /\ neo4j_type.s = edge_path THEN Return(PyStr(<<"e", "d", "g", "e">>))
    ELSE Raise("KeyError")

\* self.raw.get(key): raw must be a dict to have a get method
raw_get(self, key) ==
    IF self.raw.t = "dict" THEN Return(dict_get(self.raw, key))
    ELSE Raise("AttributeError")

\* _parse_id without the `if uri:` guard (mutant)
_parse_id_unguarded(uri) ==
    IF uri.t # "str" THEN Raise("AttributeError")
    ELSE LET n == int(rpartition(uri.s, "/")[3])
         IN IF n.ok THEN Return(PyInt(n.value)) ELSE Raise(n.error)

\* _parse_id with the ValueError of int() swallowed (mutant)
_parse_id_swallow(uri) ==
    IF ~Truthy(uri) THEN Return(None)
    ELSE IF uri.t # "str" THEN Raise("AttributeError")
    ELSE LET n == int(rpartition(uri.s, "/")[3])
         IN IF n.ok THEN Return(PyInt(n.value)) ELSE Return(None)

_parse_id(uri) ==
    IF ~Truthy(uri) THEN Return(None)
    ELSE IF uri.t # "str" THEN Raise("AttributeError")
    ELSE LET n == int(rpartition(uri.s, "/")[3])
         IN IF n.ok THEN Return(PyInt(n.value)) ELSE Raise(n.error)

_parse_type(uri) ==
    IF ~Truthy(uri) THEN Return(None)
    ELSE IF uri.t # "str" THEN Raise("AttributeError")
    ELSE LET root_uri == rpartition(uri.s, "/")[1]
         IN Return(PyStr(rpartition(root_uri, "/")[3]))

_parse_index_type(uri) ==
    IF ~Truthy(uri) THEN Return(None)
    ELSE IF uri.t # "str" THEN Raise("AttributeError")
    ELSE LET path == urlsplit_path(uri.s)
             segments == split(path, "/")
         IN IF Len(segments) < 4 THEN Raise("IndexError")
            ELSE Return(PyStr(segments[Len(segments) - 3]))

\* f applied to what g gave, unless g raised
Then(g, f(_)) == IF g.ok THEN f(g.value) ELSE g

get_uri(self) == raw_get(self, "self")

get_id(self) == Then(raw_get(self, "self"), _parse_id)

get_type(self) == Then(Then(get_uri(self), _parse_type), type_map)

get_map(self) == Return(self.data)

get_outV(self) == Then(raw_get(self, "start"), _parse_id)

get_inV(self) == Then(raw_get(self, "end"), _parse_id)

get_label(self) == raw_get(self, "type")

get_index_name(self) == raw_get(self, "name")

get_index_class(self) ==
    Then(Then(raw_get(self, "template"), _parse_index_type), type_map)

----------------------------------------------------------------------------
(* Paths, placeholders and null stripping *)

\* bulbs.utils.build_path: the string forms of the segments joined by "/"
build_path(segments) == Join([i \in 1..Len(segments) |-> str(segments[i])], <<"/">>)

\* re.search("^{.*}$", str(_id)): "." matches no newline and "$" also matches
\* just before a newline that ends the string; the result is match.group()
_placeholder(_id) ==
    LET s == str(_id)
        core == IF s # <<>> /\ s[Len(s)] = "\n" THEN SubSeq(s, 1, Len(s) - 1) ELSE s
        match == /\ Len(core) >= 2
                 /\ core[1] = "{"
                 /\ core[Len(core)] = "}"
                 /\ \A i \in 1..Len(core) : core[i] # "\n"
    IN IF match THEN PyStr(core) ELSE None

_build_vertex_path(_id, args) ==
    LET placeholder == _placeholder(_id)
        segments == IF Truthy(placeholder) THEN << placeholder >>
                    ELSE << PyStr(vertex_path), _id >>
    IN build_path(segments \o args)

_build_vertex_uri(_id, args) ==
    LET placeholder == _placeholder(_id)
        root_uri == rstrip(config.root_uri, "/")
        path == build_path(<< PyStr(vertex_path), _id >> \o args)
    IN IF Truthy(placeholder) THEN placeholder.s
       ELSE root_uri \o <<"/">> \o path

\* _build_edge_path without the placeholder test (mutant)
_build_edge_path_no_placeholder(_id) == build_path(<< PyStr(edge_path), _id >>)

_build_edge_path(_id) ==
    LET placeholder == _placeholder(_id)
    IN IF Truthy(placeholder) THEN placeholder.s
       ELSE build_path(<< PyStr(edge_path), _id >>)

\* _remove_null_values keeping the items whose value is true (mutant)
_remove_null_values_truthy(data) ==
    PyDict([k \in {k \in DOMAIN data.d : Truthy(data.d[k])} |-> data.d[k]])

\* a new dict of the items of data whose value is not None
_remove_null_values(data) ==
    PyDict([k \in {k \in DOMAIN data.d : data.d[k].t # "None"} |-> data.d[k]])

\* the caller's dict after _remove_null_values(data): nothing is assigned into it
_remove_null_values_arg(data) == data

----------------------------------------------------------------------------
(* Neo4jResponse *)

NoResponse == [t |-> "NoResponse"]

NoReply == [t |-> "NoReply"]

\* bulbs.rest.RESPONSE_HANDLERS: the handler of a status passes for 2xx and
\* raises the status error of its category for any other status
RESPONSE_HANDLERS(status) ==
    IF status \in 200..299 THEN "ok"
    ELSE IF status = 404 THEN "NotFoundError"
    ELSE IF status = 409 THEN "ConflictError"
    ELSE IF status \in 500..599 THEN "ServerError"
    ELSE "RequestError"

handle_response(response) ==
    LET response_handler == RESPONSE_HANDLERS(response.status)
    IN IF response_handler = "ok" THEN Return(None) ELSE Raise(response_handler)

get_headers(response) == [status |-> response.status]

\* json.loads of the body text: the decoded value, or ValueError
json_loads(body) ==
    IF body.kind = "json" THEN Return(body.value) ELSE Raise("ValueError")

get_content(response) ==
    IF response.body.kind # "empty" THEN json_loads(response.body) ELSE Return(None)

\* a generator expression over source: nothing is wrapped until next() is called;
\* unwrap says the element wrapped is result[0] (cypher) rather than result
Generator(source, unwrap) ==
    [t |-> "generator", source |-> source, unwrap |-> unwrap, pos |-> 0]

SingleResult(result) == [t |-> "Result", obj |-> Neo4jResult(result)]

\* get_results with the list test folded into the truth test (mutant)
get_results_truthy_list(content) ==
    IF Truthy(content) /\ content.t = "list"
    THEN [results |-> Generator(content.l, FALSE), total_size |-> Len(content.l)]
    ELSE IF Truthy(content) /\ ~(content.t = "str" /\ content.s = <<"n", "u", "l", "l">>)
    THEN [results |-> SingleResult(content), total_size |-> 1]
    ELSE [results |-> None, total_size |-> 0]

\* get_results without the test for the "null" string (mutant)
get_results_no_null_test(content) ==
    IF content.t = "list"
    THEN [results |-> Generator(content.l, FALSE), total_size |-> Len(content.l)]
    ELSE IF Truthy(content)
    THEN [results |-> SingleResult(content), total_size |-> 1]
    ELSE [results |-> None, total_size |-> 0]

get_results(content) ==
    IF content.t = "list"
    THEN [results |-> Generator(content.l, FALSE), total_size |-> Len(content.l)]
    ELSE IF Truthy(content) /\ ~(content.t = "str" /\ content.s = <<"n", "u", "l", "l">>)
    THEN [results |-> SingleResult(content), total_size |-> 1]
    ELSE [results |-> None, total_size |-> 0]

_maybe_get_raw(response) == IF config.log_level = "DEBUG" THEN response ELSE None

\* Neo4jResponse.__init__ with the body decoded before the status is handled (mutant)
Neo4jResponse_decode_first(response) ==
    LET handled == handle_response(response)
        content == get_content(response)
        got == get_results(content.value)
    IN IF ~content.ok THEN content
       ELSE IF ~handled.ok THEN handled
       ELSE Return([t          |-> "Response",
                    raw        |-> _maybe_get_raw(response),
                    content    |-> content.value,
                    results    |-> got.results,
                    total_size |-> got.total_size,
                    headers    |-> get_headers(response)])

\* Neo4jResponse.__init__: the status handler runs first, then the body is decoded
Neo4jResponse(response) ==
    LET handled == handle_response(response)
        content == get_content(response)
        got == get_results(content.value)
    IN IF ~handled.ok THEN handled
       ELSE IF ~content.ok THEN content
       ELSE Return([t          |-> "Response",
                    raw        |-> _maybe_get_raw(response),
                    content    |-> content.value,
                    results    |-> got.results,
                    total_size |-> got.total_size,
                    headers    |-> get_headers(response)])

\* the texts of the keys that JSON objects are looked up by with a string
KeyText ==
    [vertex |-> <<"v", "e", "r", "t", "e", "x">>,
     edge   |-> <<"e", "d", "g", "e">>]

\* the key of dict d that the Python string x is equal to, "" when there is none
key_of(d, x) ==
    IF x.t = "str" /\ \E k \in DOMAIN d.d \cap DOMAIN KeyText : KeyText[k] = x.s
    THEN CHOOSE k \in DOMAIN d.d \cap DOMAIN KeyText : KeyText[k] = x.s
    ELSE ""

\* sub in s, of two strings
IsSubstring(sub, s) ==
    \E i \in 1..(Len(s) - Len(sub) + 1) : SubSeq(s, i, i + Len(sub) - 1) = sub

\* obj['name'] = index_name, on a dict
set_name(obj, index_name) ==
    PyDict([k \in DOMAIN obj.d \cup {"name"} |->
                IF k = "name" THEN index_name ELSE obj.d[k]])

\* _set_index_name that leaves the name the server sent (mutant)
_set_index_name_keep(resp_, index_name) ==
    IF resp_.results.t # "Result" THEN Raise("AttributeError")
    ELSE IF resp_.results.obj.raw.t # "dict" THEN Raise("TypeError")
    ELSE Return(resp_)

\* self.results.raw['name'] = index_name: the raw object is changed in place,
\* so the content it is (or is an item of) shows the name too
_set_index_name(resp_, index_name) ==
    IF resp_.results.t # "Result" THEN Raise("AttributeError")
    ELSE IF resp_.results.obj.raw.t # "dict" THEN Raise("TypeError")
    ELSE LET old == resp_.results.obj.raw
             new == set_name(old, index_name)
             content == resp_.content
             k == IF content.t = "dict" THEN key_of(content, index_name) ELSE ""
         IN Return([resp_ EXCEPT
                !.results.obj.raw = new,
                !.content = IF content = old THEN new
                            ELSE IF k # "" /\ content.d[k] = old
                            THEN PyDict([content.d EXCEPT ![k] = new])
                            ELSE content])

----------------------------------------------------------------------------
(* The request dispatcher and the script registry *)

\* GroovyScripts.get(name): the script body registered under name
scripts_get(name) == [t |-> "script", name |-> name]

Request(verb, path, params) == [path |-> path, verb |-> verb, params |-> params]

\* Request.get/put/post/delete: one HTTP call, and one Response built from the
\* reply; a call that cannot complete raises the transport's error
request_send(response) ==
    IF response.t = "failure" THEN Raise("TransportError") ELSE Neo4jResponse(response)

----------------------------------------------------------------------------
(* Neo4jClient: the request each operation builds *)

gremlin(script, params) ==
    Request("POST", gremlin_path, PyDict([params |-> params, script |-> script]))

cypher(query, params) ==
    Request("POST", cypher_path, PyDict([params |-> params, query |-> query]))

create_indexed_vertex(data, index_name, keys) ==
    gremlin(scripts_get("create_indexed_vertex"),
            PyDict([data |-> _remove_null_values(data), index_name |-> index_name,
                    keys |-> keys]))

update_indexed_vertex(_id, data, index_name, keys) ==
    gremlin(scripts_get("update_indexed_vertex"),
            PyDict([data |-> _remove_null_values(data), _id |-> _id,
                    index_name |-> index_name, keys |-> keys]))

create_indexed_edge(outV, label, inV, data, index_name, keys) ==
    gremlin(scripts_get("create_indexed_edge"),
            PyDict([data |-> _remove_null_values(data), index_name |-> index_name,
                    keys |-> keys, outV |-> outV, label |-> label, inV |-> inV]))

update_indexed_edge(_id, data, index_name, keys) ==
    gremlin(scripts_get("update_indexed_edge"),
            PyDict([data |-> _remove_null_values(data), _id |-> _id,
                    index_name |-> index_name, keys |-> keys]))

create_vertex(data) ==
    IF config.autoindex = TRUE
    THEN create_indexed_vertex(data, config.vertex_index, None)
    ELSE Request("POST", vertex_path, _remove_null_values(data))

get_vertex(_id) == Request("GET", build_path(<< PyStr(vertex_path), _id >>), None)

update_vertex(_id, data) ==
    IF config.autoindex = TRUE
    THEN update_indexed_vertex(_id, data, config.vertex_index, None)
    ELSE Request("PUT", _build_vertex_path(_id, << PyStr(<<"p", "r", "o", "p", "e", "r", "t", "i", "e", "s">>) >>),
                 _remove_null_values(data))

delete_vertex(_id) == gremlin(scripts_get("delete_vertex"), PyDict([_id |-> _id]))

create_edge(outV, label, inV, data) ==
    IF config.autoindex = TRUE
    THEN create_indexed_edge(outV, label, inV, data, config.edge_index, None)
    ELSE Request("POST",
                 build_path(<< PyStr(vertex_path), outV,
                               PyStr(<<"r", "e", "l", "a", "t", "i", "o", "n", "s", "h", "i", "p", "s">>) >>),
                 PyDict([data |-> _remove_null_values(data),
                         to |-> PyStr(_build_vertex_uri(inV, <<>>)), type |-> label]))

get_edge(_id) == Request("GET", build_path(<< PyStr(edge_path), _id >>), None)

\* update_edge without the auto-index branch (mutant)
update_edge_plain(_id, data) ==
    Request("PUT",
            build_path(<< PyStr(edge_path), _id,
                          PyStr(<<"p", "r", "o", "p", "e", "r", "t", "i", "e", "s">>) >>),
            _remove_null_values(data))

update_edge(_id, data) ==
    IF config.autoindex = TRUE
    THEN update_indexed_edge(_id, data, config.edge_index, None)
    ELSE Request("PUT",
                 build_path(<< PyStr(edge_path), _id,
                               PyStr(<<"p", "r", "o", "p", "e", "r", "t", "i", "e", "s">>) >>),
                 _remove_null_values(data))

delete_edge(_id) == Request("DELETE", build_path(<< PyStr(edge_path), _id >>), None)

create_vertex_index(index_name) ==
    Request("POST", build_path(<< PyStr(index_path), PyStr(<<"n", "o", "d", "e">>) >>),
            PyDict([config |-> PyDict([type |-> PyStr(<<"e", "x", "a", "c", "t">>),
                                       provider |-> PyStr(<<"l", "u", "c", "e", "n", "e">>)]),
                    name |-> index_name]))

get_vertex_indices ==
    Request("GET", build_path(<< PyStr(index_path), PyStr(<<"n", "o", "d", "e">>) >>), None)

delete_vertex_index(index_name) ==
    Request("DELETE",
            build_path(<< PyStr(index_path), PyStr(<<"n", "o", "d", "e">>), index_name >>), None)

create_edge_index(index_name) ==
    Request("POST", build_path(<< PyStr(index_path), PyStr(edge_path) >>),
            PyDict([name |-> index_name]))

get_edge_indices ==
    Request("GET", build_path(<< PyStr(index_path), PyStr(edge_path) >>), None)

delete_edge_index(index_name) ==
    Request("DELETE", build_path(<< PyStr(index_path), PyStr(edge_path), index_name >>), None)

\* quote_plus of one character: letters, digits and "_.-" stay, a space
\* becomes "+", anything else its percent escape
quote_char(c) ==
    CASE c = " "  -> <<"+">>
      [] c = "/"  -> <<"%", "2", "F">>
      [] c = "\n" -> <<"%", "0", "A">>
      [] c = "{"  -> <<"%", "7", "B">>
      [] c = "}"  -> <<"%", "7", "D">>
      [] c = "+"  -> <<"%", "2", "B">>
      [] OTHER    -> <<c>>

RECURSIVE quote_plus(_)
quote_plus(x) == IF x = <<>> THEN <<>> ELSE quote_char(Head(x)) \o quote_plus(Tail(x))

\* "%s/%s/%d" % (root_uri, kind, _id): %d takes a number only
format_uri(kind, _id) ==
    IF _id.t # "int" THEN Raise("TypeError")
    ELSE Return(config.root_uri \o <<"/">> \o kind \o <<"/">> \o IntToStr(_id.i))

\* the request an index container operation makes, or the error it raises
\* before it makes one; NameError is the read of the name `name`, which no
\* scope of the module binds
put_vertex(index_name, key, value, _id) ==
    LET uri == format_uri(<<"n", "o", "d", "e">>, _id)
    IN IF ~uri.ok THEN uri
       ELSE Return(Request("POST",
                build_path(<< PyStr(index_path), PyStr(<<"n", "o", "d", "e">>), index_name >>),
                PyDict([value |-> value, key |-> key, uri |-> PyStr(uri.value)])))

lookup_vertex(index_name, key, value) ==
    Return(Request("GET",
            build_path(<< PyStr(index_path), PyStr(<<"n", "o", "d", "e">>), index_name,
                          PyStr(quote_plus(key.s)), PyStr(quote_plus(value.s)) >>),
            None))

query_vertex(index_name, params) == Raise("NameError")

remove_vertex(index_name, _id, key, value) == Raise("NameError")

put_edge(index_name, key, value, _id) ==
    LET uri == format_uri(edge_path, _id)
    IN IF ~uri.ok THEN uri ELSE Raise("NameError")

lookup_edge(index_name, key, value) ==
    LET quoted == << quote_plus(key.s), quote_plus(value.s) >>
    IN Raise("NameError")

query_edge(index_name, params) == Raise("NameError")

remove_edge(index_name, _id, key, value) == Raise("NameError")

get_metadata(key, default_value) ==
    gremlin(scripts_get("get_metadata"),
            PyDict([key |-> key, default_value |-> default_value]))

set_metadata(key, value) ==
    gremlin(scripts_get("set_metadata"), PyDict([value |-> value, key |-> key]))

remove_metadata(key) == gremlin(scripts_get("remove_metadata"), PyDict([key |-> key]))

\* `index_name in resp.content` followed by resp.content[index_name]
_get_index_results(index_name, resp_) ==
    LET content == resp_.content
    IN IF ~Truthy(content) THEN Return(None)
       ELSE CASE content.t = "dict" ->
                    IF key_of(content, index_name) # ""
                    THEN Return(SingleResult(content.d[key_of(content, index_name)]))
                    ELSE Return(None)
              [] content.t = "list" ->
                    IF \E i \in 1..Len(content.l) : content.l[i] = index_name
                    THEN Raise("TypeError") ELSE Return(None)
              [] content.t = "str" ->
                    IF IsSubstring(index_name.s, content.s)
                    THEN Raise("TypeError") ELSE Return(None)
              [] OTHER -> Raise("TypeError")

\* get_vertex_index and get_edge_index after the listing request: results is
\* replaced by the index found, and named when one was found
get_index(index_name, resp_) ==
    LET found == _get_index_results(index_name, resp_)
    IN IF ~found.ok THEN found
       ELSE IF found.value.t = "Result"
       THEN _set_index_name([resp_ EXCEPT !.results = found.value], index_name)
       ELSE Return([resp_ EXCEPT !.results = found.value])

\* cypher's lines after the request ("Cypher data hack"): the rows are read off
\* resp.results.data when the generator is made, and again, off the generator
\* that resp.results then is, for the size
cypher_hack(resp_) ==
    LET results == resp_.results
        rows == IF results.t = "Result" THEN Return(results.obj.data)
                ELSE Raise("AttributeError")
        made == IF ~rows.ok THEN rows
                ELSE IF rows.value.t \notin {"list", "dict", "str"} THEN Raise("TypeError")
                ELSE Return(Generator(IF rows.value.t = "list" THEN rows.value.l ELSE <<>>, TRUE))
        sized == IF ~made.ok THEN made
                 ELSE IF made.value.t = "Result" THEN Return(made.value.obj.data)
                 ELSE Raise("AttributeError")
    IN IF ~made.ok THEN made
       ELSE IF ~sized.ok THEN sized
       ELSE Return([resp_ EXCEPT !.results = made.value, !.total_size = Len(sized.value.l)])

----------------------------------------------------------------------------
(* Inputs: what callers pass and what the server may reply *)

\* the characters locators are made of
LocatorChars == {"/", "4", "2", "a", "\n"}

\* the characters string IDs are made of
IdChars == {"{", "}", "a", "\n"}

RECURSIVE StringsOfLen(_, _)
StringsOfLen(cs, n) ==
    IF n = 0 THEN {<<>>}
    ELSE {<<c>> \o s : c \in cs, s \in StringsOfLen(cs, n - 1)}

\* every string over cs of at most max characters
Strings(cs, max) == UNION {StringsOfLen(cs, n) : n \in 0..max}

Tails == Strings(LocatorChars, MaxTail)

RootUri == <<"h", ":", "/", "/", "r", "/">>

Kinds == {vertex_path, edge_path, index_path}

\* locators: free-form strings, and free-form tails under a resource of the server
Locators ==
    Tails \cup {rstrip(RootUri, "/") \o <<"/">> \o k \o <<"/">> \o s : k \in Kinds, s \in Tails}

TemplateSuffixes == {<<>>, <<"/">>, <<"?", "a">>, <<"#", "a">>, <<"4", "2">>}

\* an index template: <root>/<k1>/<k2>/<name>/{key}/{value}<suffix>
Template(k1, k2, x) ==
    rstrip(RootUri, "/") \o <<"/">> \o k1 \o <<"/">> \o k2
        \o <<"/", "i", "/", "{", "k", "}", "/", "{", "v", "}">> \o x

Templates == {Template(k1, k2, x) : k1 \in Kinds, k2 \in Kinds, x \in TemplateSuffixes}

\* entity IDs: integers, and strings that may or may not be placeholders
Ids == {PyInt(i) : i \in {0, 7, 42}} \cup {PyStr(s) : s \in Strings(IdChars, MaxIdLen)}

FacadeIds == {PyInt(42), PyStr(<<"{", "4", "}">>)}

Labels == {PyStr(<<"k", "n", "o", "w", "s">>)}

PropertyValues == {None, PyStr(<<"a", "l", "i", "c", "e">>), PyInt(0)}

\* property maps over the keys "name" and "age", each absent, null or set
PropertyMaps ==
    UNION {{PyDict(d) : d \in [ks -> PropertyValues]} : ks \in SUBSET {"name", "age"}}

VertexObject ==
    PyDict([data |-> PyDict([name |-> PyStr(<<"a", "l", "i", "c", "e">>)]),
            self |-> PyStr(rstrip(RootUri, "/") \o <<"/", "n", "o", "d", "e", "/", "4", "2">>)])

EdgeObject ==
    PyDict([self  |-> PyStr(rstrip(RootUri, "/") \o <<"/">> \o edge_path \o <<"/", "7">>),
            type  |-> PyStr(<<"k", "n", "o", "w", "s">>),
            start |-> PyStr(rstrip(RootUri, "/") \o <<"/", "n", "o", "d", "e", "/", "4">>),
            end   |-> PyStr(rstrip(RootUri, "/") \o <<"/", "n", "o", "d", "e", "/", "2">>)])

\* what a JSON array may hold: an object or a bare number
Elements == {VertexObject, PyInt(0)}

RECURSIVE SeqsOfLen(_, _)
SeqsOfLen(S, n) ==
    IF n = 0 THEN {<<>>}
    ELSE {<<x>> \o q : x \in S, q \in SeqsOfLen(S, n - 1)}

SeqsUpTo(S, n) == UNION {SeqsOfLen(S, k) : k \in 0..n}

Arrays == {PyList(q) : q \in SeqsUpTo(Elements, MaxArr)}

\* the tabular reply of the cypher endpoint over rows, each a one-element array
CypherTable(q) ==
    PyDict([data |-> PyList([i \in 1..Len(q) |-> PyList(<< q[i] >>)]),
            columns |-> PyList(<< PyStr(<<"n">>) >>)])

CypherTables ==
    {CypherTable(q) : q \in SeqsUpTo({VertexObject}, MaxArr)}
    \cup {CypherTable(<< PyInt(0), VertexObject >>)}

Scalars ==
    {None, PyStr(<<"n", "u", "l", "l">>), PyStr(<<>>), PyStr(<<"a">>),
     PyInt(0), PyInt(7), PyBool(FALSE), PyBool(TRUE)}

Objects == {VertexObject, EdgeObject, EmptyDict}

JsonValues == Arrays \cup CypherTables \cup Scalars \cup Objects

Bodies ==
    {[kind |-> "empty"], [kind |-> "malformed"]}
    \cup {[value |-> v, kind |-> "json"] : v \in JsonValues}

\* the bodies drawn with a status that is not 2xx: empty, invalid and valid JSON
ErrorBodies ==
    {[kind |-> "empty"], [kind |-> "malformed"]}
    \cup {[value |-> v, kind |-> "json"] : v \in {VertexObject, PyList(<< VertexObject >>)}}

SuccessStatuses == {200, 204}

ErrorStatuses == {302, 404, 409, 500}

Replies ==
    {[t |-> "failure"]}
    \cup {[t |-> "reply", body |-> b, status |-> st] : st \in SuccessStatuses, b \in Bodies}
    \cup {[t |-> "reply", body |-> b, status |-> st] : st \in ErrorStatuses, b \in ErrorBodies}

IndexNames == {PyStr(KeyText[k]) : k \in DOMAIN KeyText}

\* an index as the server describes it, with the name field or without
IndexObjects ==
    {PyDict([template |-> PyStr(Template(index_path, vertex_path, <<>>))]),
     PyDict([name |-> PyStr(<<"a">>),
             template |-> PyStr(Template(index_path, edge_path, <<>>))])}

\* the index listings: objects keyed by index name, and one with an entry that
\* is not an object
IndexMaps ==
    {PyDict([vertex |-> o]) : o \in IndexObjects}
    \cup {PyDict([vertex |-> o, edge |-> o]) : o \in IndexObjects}
    \cup {PyDict([vertex |-> PyStr(<<"a">>)])}

\* what the index endpoints may reply
IndexReplies ==
    Replies
    \cup {[t |-> "reply", body |-> [value |-> v, kind |-> "json"], status |-> st] :
            st \in {200, 201}, v \in IndexObjects \cup IndexMaps}

\* the raw values a Result may be built over
RawObjects ==
    {PyDict([self |-> PyStr(l)]) : l \in Locators}
    \cup {PyDict([start |-> PyStr(l)]) : l \in Tails}
    \cup {PyDict([end |-> PyStr(l)]) : l \in Tails}
    \cup {PyDict([template |-> PyStr(l)]) : l \in Templates \cup Tails}
    \cup {PyDict([self |-> None]), PyDict([self |-> PyInt(7)]), PyInt(0)}
    \cup Objects

Configs ==
    [root_uri     : {RootUri},
     log_level    : {"ERROR", "DEBUG"},
     autoindex    : BOOLEAN,
     vertex_index : {PyStr(<<"v", "e", "r", "t", "e", "x">>)},
     edge_index   : {PyStr(<<"e", "d", "g", "e">>)}]

----------------------------------------------------------------------------
(* The state machine: one facade call, then reads of what it returned *)

NoResult == [t |-> "NoResult"]

NoCall == [op |-> "none"]

Init ==
    /\ config \in Configs
    /\ pc = "idle"
    /\ call = NoCall
    /\ sent = <<>>
    /\ reply = NoReply
    /\ resp = NoResponse
    /\ err = "none"
    /\ cur = NoResult
    /\ yielded = <<>>
    /\ acc = NoCall

\* the caller's view after an operation sent req, the server replied response,
\* and the operation's remaining lines made outcome of the Response
Finish(op, args, req, response, outcome) ==
    /\ call' = [args |-> args, op |-> op]
    /\ sent' = << req >>
    /\ reply' = response
    /\ pc' = IF outcome.ok THEN "returned" ELSE "raised"
    /\ resp' = IF outcome.ok THEN outcome.value ELSE NoResponse
    /\ err' = IF outcome.ok THEN "none" ELSE outcome.error
    /\ UNCHANGED <<config, cur, yielded, acc>>

\* an operation that returns the dispatcher's Response as it is
Dispatch(op, args, req) ==
    /\ pc = "idle"
    /\ \E response \in Replies : Finish(op, args, req, response, request_send(response))

Gremlin ==
    \E script \in {scripts_get("get_vertices")}, params \in {None} :
        Dispatch("gremlin", [params |-> params, script |-> script],
                 gremlin(script, params))

Cypher ==
    /\ pc = "idle"
    /\ \E query \in {PyStr(<<"q">>)}, params \in {None}, response \in Replies :
        Finish("cypher", [params |-> params, query |-> query],
               cypher(query, params), response,
               Then(request_send(response), cypher_hack))

CreateVertex ==
    \E data \in PropertyMaps :
        Dispatch("create_vertex",
                 [data |-> data, data_after |-> _remove_null_values_arg(data)],
                 create_vertex(data))

GetVertex ==
    \E _id \in FacadeIds : Dispatch("get_vertex", [_id |-> _id], get_vertex(_id))

UpdateVertex ==
    \E _id \in FacadeIds, data \in PropertyMaps :
        Dispatch("update_vertex",
                 [data |-> data, _id |-> _id, data_after |-> _remove_null_values_arg(data)],
                 update_vertex(_id, data))

DeleteVertex ==
    \E _id \in FacadeIds : Dispatch("delete_vertex", [_id |-> _id], delete_vertex(_id))

CreateEdge ==
    \E outV \in FacadeIds, label \in Labels, inV \in FacadeIds, data \in PropertyMaps :
        Dispatch("create_edge",
                 [data |-> data, outV |-> outV, label |-> label, inV |-> inV,
                  data_after |-> _remove_null_values_arg(data)],
                 create_edge(outV, label, inV, data))

GetEdge ==
    \E _id \in FacadeIds : Dispatch("get_edge", [_id |-> _id], get_edge(_id))

UpdateEdge ==
    \E _id \in FacadeIds, data \in PropertyMaps :
        Dispatch("update_edge",
                 [data |-> data, _id |-> _id, data_after |-> _remove_null_values_arg(data)],
                 update_edge(_id, data))

DeleteEdge ==
    \E _id \in FacadeIds : Dispatch("delete_edge", [_id |-> _id], delete_edge(_id))

CreateIndexedVertex ==
    \E data \in PropertyMaps, index_name \in {config.vertex_index} :
        Dispatch("create_indexed_vertex",
                 [data |-> data, index_name |-> index_name,
                  data_after |-> _remove_null_values_arg(data)],
                 create_indexed_vertex(data, index_name, None))

UpdateIndexedVertex ==
    \E _id \in FacadeIds, data \in PropertyMaps, index_name \in {config.vertex_index} :
        Dispatch("update_indexed_vertex",
                 [data |-> data, _id |-> _id, index_name |-> index_name,
                  data_after |-> _remove_null_values_arg(data)],
                 update_indexed_vertex(_id, data, index_name, None))

CreateIndexedEdge ==
    \E outV \in FacadeIds, label \in Labels, inV \in FacadeIds, data \in PropertyMaps,
       index_name \in {config.edge_index} :
        Dispatch("create_indexed_edge",
                 [data |-> data, index_name |-> index_name,
                  outV |-> outV, label |-> label, inV |-> inV,
                  data_after |-> _remove_null_values_arg(data)],
                 create_indexed_edge(outV, label, inV, data, index_name, None))

UpdateIndexedEdge ==
    \E _id \in FacadeIds, data \in PropertyMaps, index_name \in {config.edge_index} :
        Dispatch("update_indexed_edge",
                 [data |-> data, _id |-> _id, index_name |-> index_name,
                  data_after |-> _remove_null_values_arg(data)],
                 update_indexed_edge(_id, data, index_name, None))

\* an index operation: the reply is drawn from what the index endpoints send,
\* and after(resp) is what the operation's remaining lines make of the Response
IndexCall(op, index_name, req, after(_)) ==
    /\ pc = "idle"
    /\ \E response \in IndexReplies :
        Finish(op, [index_name |-> index_name], req, response,
               Then(request_send(response), after))

CreateVertexIndex ==
    \E index_name \in IndexNames :
        IndexCall("create_vertex_index", index_name, create_vertex_index(index_name),
                  LAMBDA r : _set_index_name(r, index_name))

GetVertexIndices ==
    IndexCall("get_vertex_indices", None, get_vertex_indices, LAMBDA r : Return(r))

\* get_vertex_index that asks for the listing and then for the index itself
\* (mutant)
GetVertexIndex_refetch ==
    /\ pc = "idle"
    /\ \E index_name \in IndexNames, response \in IndexReplies :
        LET outcome == Then(request_send(response), LAMBDA r : get_index(index_name, r))
        IN /\ call' = [args |-> [index_name |-> index_name], op |-> "get_vertex_index"]
           /\ sent' = << get_vertex_indices, delete_vertex_index(index_name) >>
           /\ reply' = response
           /\ pc' = IF outcome.ok THEN "returned" ELSE "raised"
           /\ resp' = IF outcome.ok THEN outcome.value ELSE NoResponse
           /\ err' = IF outcome.ok THEN "none" ELSE outcome.error
    /\ UNCHANGED <<config, cur, yielded, acc>>

GetVertexIndex ==
    \E index_name \in IndexNames :
        IndexCall("get_vertex_index", index_name, get_vertex_indices,
                  LAMBDA r : get_index(index_name, r))

DeleteVertexIndex ==
    \E index_name \in IndexNames :
        IndexCall("delete_vertex_index", index_name, delete_vertex_index(index_name),
                  LAMBDA r : Return(r))

CreateEdgeIndex ==
    \E index_name \in IndexNames :
        IndexCall("create_edge_index", index_name, create_edge_index(index_name),
                  LAMBDA r : _set_index_name(r, index_name))

GetEdgeIndices ==
    IndexCall("get_edge_indices", None, get_edge_indices, LAMBDA r : Return(r))

GetEdgeIndex ==
    \E index_name \in IndexNames :
        IndexCall("get_edge_index", index_name, get_edge_indices,
                  LAMBDA r : get_index(index_name, r))

DeleteEdgeIndex ==
    \E index_name \in IndexNames :
        IndexCall("delete_edge_index", index_name, delete_edge_index(index_name),
                  LAMBDA r : Return(r))

\* an operation that raised before it sent a request
Fail(op, args, error) ==
    /\ pc = "idle"
    /\ call' = [args |-> args, op |-> op]
    /\ sent' = <<>>
    /\ pc' = "raised"
    /\ err' = error
    /\ UNCHANGED <<config, reply, resp, cur, yielded, acc>>

\* an index container operation: its request is dispatched when it built one
Membership(op, args, built) ==
    IF built.ok THEN Dispatch(op, args, built.value) ELSE Fail(op, args, built.error)

IndexKeys == {PyStr(<<"k">>)}

IndexValues == {PyStr(<<"a", " ", "b">>), PyStr(<<"a", "/", "b">>)}

PutVertex ==
    \E index_name \in IndexNames, key \in IndexKeys, value \in IndexValues, _id \in FacadeIds :
        Membership("put_vertex",
                   [value |-> value, key |-> key, _id |-> _id, index_name |-> index_name],
                   put_vertex(index_name, key, value, _id))

LookupVertex ==
    \E index_name \in IndexNames, key \in IndexKeys, value \in IndexValues :
        Membership("lookup_vertex",
                   [value |-> value, key |-> key, index_name |-> index_name],
                   lookup_vertex(index_name, key, value))

QueryVertex ==
    \E index_name \in IndexNames, params \in {None} :
        Membership("query_vertex", [index_name |-> index_name, params |-> params],
                   query_vertex(index_name, params))

RemoveVertex ==
    \E index_name \in IndexNames, _id \in FacadeIds, key \in IndexKeys \cup {None},
       value \in {None} :
        Membership("remove_vertex",
                   [value |-> value, key |-> key, _id |-> _id, index_name |-> index_name],
                   remove_vertex(index_name, _id, key, value))

PutEdge ==
    \E index_name \in IndexNames, key \in IndexKeys, value \in IndexValues, _id \in FacadeIds :
        Membership("put_edge",
                   [value |-> value, key |-> key, _id |-> _id, index_name |-> index_name],
                   put_edge(index_name, key, value, _id))

LookupEdge ==
    \E index_name \in IndexNames, key \in IndexKeys, value \in IndexValues :
        Membership("lookup_edge",
                   [value |-> value, key |-> key, index_name |-> index_name],
                   lookup_edge(index_name, key, value))

QueryEdge ==
    \E index_name \in IndexNames, params \in {None} :
        Membership("query_edge", [index_name |-> index_name, params |-> params],
                   query_edge(index_name, params))

RemoveEdge ==
    \E index_name \in IndexNames, _id \in FacadeIds, key \in IndexKeys \cup {None},
       value \in {None} :
        Membership("remove_edge",
                   [value |-> value, key |-> key, _id |-> _id, index_name |-> index_name],
                   remove_edge(index_name, _id, key, value))

\* traversals: one Gremlin script each, with the vertex ID and the label
outE(_id, label) ==
    gremlin(scripts_get("outE"), PyDict([_id |-> _id, label |-> label]))

inE(_id, label) ==
    gremlin(scripts_get("inE"), PyDict([_id |-> _id, label |-> label]))

bothE(_id, label) ==
    gremlin(scripts_get("bothE"), PyDict([_id |-> _id, label |-> label]))

outV(_id, label) ==
    gremlin(scripts_get("outV"), PyDict([_id |-> _id, label |-> label]))

inV(_id, label) ==
    gremlin(scripts_get("inV"), PyDict([_id |-> _id, label |-> label]))

bothV(_id, label) ==
    gremlin(scripts_get("bothV"), PyDict([_id |-> _id, label |-> label]))

OutE ==
    \E _id \in FacadeIds, label \in Labels \cup {None} :
        Dispatch("outE", [_id |-> _id, label |-> label], outE(_id, label))

InE ==
    \E _id \in FacadeIds, label \in Labels \cup {None} :
        Dispatch("inE", [_id |-> _id, label |-> label], inE(_id, label))

BothE ==
    \E _id \in FacadeIds, label \in Labels \cup {None} :
        Dispatch("bothE", [_id |-> _id, label |-> label], bothE(_id, label))

OutV ==
    \E _id \in FacadeIds, label \in Labels \cup {None} :
        Dispatch("outV", [_id |-> _id, label |-> label], outV(_id, label))

InV ==
    \E _id \in FacadeIds, label \in Labels \cup {None} :
        Dispatch("inV", [_id |-> _id, label |-> label], inV(_id, label))

BothV ==
    \E _id \in FacadeIds, label \in Labels \cup {None} :
        Dispatch("bothV", [_id |-> _id, label |-> label], bothV(_id, label))

GetMetadata ==
    \E key \in IndexKeys, default_value \in {None, PyInt(0)} :
        Dispatch("get_metadata", [key |-> key, default_value |-> default_value],
                 get_metadata(key, default_value))

SetMetadata ==
    \E key \in IndexKeys, value \in IndexValues :
        Dispatch("set_metadata", [value |-> value, key |-> key], set_metadata(key, value))

RemoveMetadata ==
    \E key \in IndexKeys :
        Dispatch("remove_metadata", [key |-> key], remove_metadata(key))

\* next() on results that start over once exhausted, as a list's iterator
\* made anew would (mutant)
NextResult_restartable ==
    /\ pc = "returned"
    /\ resp.results.t = "generator"
    /\ LET gen == resp.results
           more == gen.pos < Len(gen.source)
           out == IF ~more THEN Raise("StopIteration")
                  ELSE Return(Neo4jResult(gen.source[gen.pos + 1]))
       IN /\ acc' = [op |-> "next", out |-> out]
          /\ resp' = [resp EXCEPT !.results.pos = IF more THEN gen.pos + 1 ELSE 0]
          /\ yielded' = IF out.ok THEN Append(yielded, out.value) ELSE yielded
    /\ UNCHANGED <<config, pc, call, sent, reply, err, cur>>

\* next() on resp.results when it is a generator: the next element is wrapped
\* now, or StopIteration is raised when none is left
NextResult ==
    /\ pc = "returned"
    /\ resp.results.t = "generator"
    /\ LET gen == resp.results
           more == gen.pos < Len(gen.source)
           item == gen.source[gen.pos + 1]
           out == IF ~more THEN Raise("StopIteration")
                  ELSE IF ~gen.unwrap THEN Return(Neo4jResult(item))
                  ELSE IF item.t # "list" THEN Raise("TypeError")
                  ELSE IF item.l = <<>> THEN Raise("IndexError")
                  ELSE Return(Neo4jResult(item.l[1]))
       IN /\ acc' = [op |-> "next", out |-> out]
          /\ resp' = IF more THEN [resp EXCEPT !.results.pos = gen.pos + 1] ELSE resp
          /\ yielded' = IF out.ok THEN Append(yielded, out.value) ELSE yielded
    /\ UNCHANGED <<config, pc, call, sent, reply, err, cur>>

\* Neo4jResult(result, config), built by a caller over a raw value
NewResult ==
    /\ pc = "idle"
    /\ \E raw \in RawObjects : cur' = Neo4jResult(raw)
    /\ pc' = "result"
    /\ UNCHANGED <<config, call, sent, reply, resp, err, yielded, acc>>

\* an accessor of the Result the caller built
Read(op, out) ==
    /\ pc = "result"
    /\ acc' = [op |-> op, out |-> out]
    /\ pc' = "read"
    /\ UNCHANGED <<config, call, sent, reply, resp, err, cur, yielded>>

GetId == Read("get_id", get_id(cur))

GetType == Read("get_type", get_type(cur))

GetMap == Read("get_map", get_map(cur))

GetUri == Read("get_uri", get_uri(cur))

GetOutV == Read("get_outV", get_outV(cur))

GetInV == Read("get_inV", get_inV(cur))

GetLabel == Read("get_label", get_label(cur))

GetIndexName == Read("get_index_name", get_index_name(cur))

GetIndexClass == Read("get_index_class", get_index_class(cur))

\* a path builder called on its own, as the batch code calls it
Helper(op, _id, args, out) ==
    /\ pc = "idle"
    /\ acc' = [_id |-> _id, args |-> args, op |-> op, out |-> out]
    /\ pc' = "helper"
    /\ UNCHANGED <<config, call, sent, reply, resp, err, cur, yielded>>

ExtraSegments == {<<>>, << PyStr(<<"p", "r", "o", "p", "e", "r", "t", "i", "e", "s">>) >>}

BuildVertexPath ==
    \E _id \in Ids, args \in ExtraSegments :
        Helper("_build_vertex_path", _id, args, _build_vertex_path(_id, args))

BuildVertexUri ==
    \E _id \in Ids, args \in {<<>>} :
        Helper("_build_vertex_uri", _id, args, _build_vertex_uri(_id, args))

BuildEdgePath ==
    \E _id \in Ids :
        Helper("_build_edge_path", _id, <<>>, _build_edge_path(_id))

Next ==
    \/ Gremlin
    \/ Cypher
    \/ CreateVertex
    \/ GetVertex
    \/ UpdateVertex
    \/ DeleteVertex
    \/ CreateEdge
    \/ GetEdge
    \/ UpdateEdge
    \/ DeleteEdge
    \/ CreateIndexedVertex
    \/ UpdateIndexedVertex
    \/ CreateIndexedEdge
    \/ UpdateIndexedEdge
    \/ CreateVertexIndex
    \/ GetVertexIndices
    \/ GetVertexIndex
    \/ DeleteVertexIndex
    \/ CreateEdgeIndex
    \/ GetEdgeIndices
    \/ GetEdgeIndex
    \/ DeleteEdgeIndex
    \/ PutVertex
    \/ LookupVertex
    \/ QueryVertex
    \/ RemoveVertex
    \/ PutEdge
    \/ LookupEdge
    \/ QueryEdge
    \/ RemoveEdge
    \/ OutE
    \/ InE
    \/ BothE
    \/ OutV
    \/ InV
    \/ BothV
    \/ GetMetadata
    \/ SetMetadata
    \/ RemoveMetadata
    \/ NextResult
    \/ NewResult
    \/ GetId
    \/ GetType
    \/ GetMap
    \/ GetUri
    \/ GetOutV
    \/ GetInV
    \/ GetLabel
    \/ GetIndexName
    \/ GetIndexClass
    \/ BuildVertexPath
    \/ BuildVertexUri
    \/ BuildEdgePath

Spec == Init /\ [][Next]_vars

----------------------------------------------------------------------------
(* Properties of Response construction *)

\* the operations that rewrite the dispatcher's Response before returning it
PostProcessed ==
    {"cypher", "create_vertex_index", "create_edge_index",
     "get_vertex_index", "get_edge_index"}

\* the server replied with a 2xx status to an operation that hands the
\* dispatcher's Response to its caller as it was constructed
Succeeded ==
    /\ call.op \notin {"none"} \cup PostProcessed
    /\ reply.t = "reply"
    /\ reply.status \in 200..299

Decoded(tag) == Succeeded /\ reply.body.kind = "json" /\ reply.body.value.t = tag

StopIteration == acc.op = "next" /\ ~acc.out.ok /\ acc.out.error = "StopIteration"

\* C1: a successful reply whose body is a JSON array of N elements gives a
\* Response with total_size = N whose results yield, in the array's order, one
\* Result per element with that element as its raw value, and stop after N.
C1_ArrayBody ==
    Decoded("list") =>
        LET array == reply.body.value.l
        IN /\ pc = "returned"
           /\ resp.total_size = Len(array)
           /\ resp.results.t = "generator"
           /\ Len(yielded) = resp.results.pos
           /\ Len(yielded) <= Len(array)
           /\ \A i \in 1..Len(yielded) : yielded[i].raw = array[i]
           /\ StopIteration => Len(yielded) = Len(array)
           /\ (acc.op = "next" /\ Len(yielded) < Len(array)) => acc.out.ok

\* an array of two different elements was iterated to its end
C1_Witness ==
    /\ Decoded("list")
    /\ Len(reply.body.value.l) = 2
    /\ reply.body.value.l[1] # reply.body.value.l[2]
    /\ Len(yielded) = 2
    /\ StopIteration

\* C2: a successful reply whose body is a single JSON object, with or without
\* fields, gives exactly one Result wrapping the object, and total_size = 1.
C2_SingleObject ==
    Decoded("dict") =>
        /\ pc = "returned"
        /\ resp.results.t = "Result"
        /\ resp.results.obj.raw = reply.body.value
        /\ resp.total_size = 1

\* C3: a successful reply with an empty body gives content, results absent and
\* total_size = 0; one whose body is the string "null" gives results absent and
\* total_size = 0; neither raises, and neither makes a Result.
C3_NoResult ==
    /\ (Succeeded /\ reply.body.kind = "empty") =>
            /\ pc = "returned" /\ err = "none"
            /\ resp.content = None
            /\ resp.results = None
            /\ resp.total_size = 0
            /\ yielded = <<>>
    /\ (Decoded("str") /\ reply.body.value.s = <<"n", "u", "l", "l">>) =>
            /\ pc = "returned" /\ err = "none"
            /\ resp.results = None
            /\ resp.total_size = 0
            /\ yielded = <<>>

\* a Response was built from a body holding the string "null"
C3_Witness ==
    /\ Decoded("str")
    /\ reply.body.value.s = <<"n", "u", "l", "l">>
    /\ pc = "returned"
    /\ resp.total_size = 0

StatusErrors == {"NotFoundError", "ConflictError", "ServerError", "RequestError"}

\* C4: a reply with a status that is not 2xx makes the operation raise the
\* status error (the not-found one for 404) whatever the body is, never a
\* decode or lookup error, and no Response is made.
C4_StatusFirst ==
    (reply.t = "reply" /\ reply.status \notin 200..299) =>
        /\ pc = "raised"
        /\ err \in StatusErrors
        /\ err \notin {"ValueError", "KeyError", "AttributeError"}
        /\ (reply.status = 404 <=> err = "NotFoundError")
        /\ resp = NoResponse
        /\ yielded = <<>>

\* a 404 arrived with a body that is not JSON
C4_Witness ==
    /\ reply.t = "reply"
    /\ reply.status = 404
    /\ reply.body.kind = "malformed"
    /\ pc = "raised"

----------------------------------------------------------------------------
(* Properties of the requests the facade sends *)

DataOps ==
    {"create_vertex", "update_vertex", "create_edge", "update_edge",
     "create_indexed_vertex", "update_indexed_vertex",
     "create_indexed_edge", "update_indexed_edge"}

\* the property map inside the request sent: the script's data parameter, the
\* data field of an edge creation, or the whole body of a plain vertex or
\* edge write
SentProperties ==
    IF sent[1].path = gremlin_path THEN sent[1].params.d.params.d.data
    ELSE IF call.op = "create_edge" THEN sent[1].params.d.data
    ELSE sent[1].params

\* C5: every create and update operation, auto-indexed or not, sends a property
\* map holding exactly the caller's keys whose value is not null, each with the
\* caller's value, and leaves the caller's map as it was.
C5_NullStripping ==
    call.op \in DataOps =>
        /\ Len(sent) = 1
        /\ LET data == call.args.data.d
               out == SentProperties.d
           IN /\ DOMAIN out = {k \in DOMAIN data : data[k] # None}
              /\ \A k \in DOMAIN out : out[k] = data[k]
        /\ call.args.data_after = call.args.data

\* an edge was created, without auto-indexing, from a map with a null and a zero
C5_Witness ==
    /\ call.op = "create_edge"
    /\ ~config.autoindex
    /\ DOMAIN call.args.data.d = {"name", "age"}
    /\ call.args.data.d.age = None
    /\ call.args.data.d.name = PyInt(0)
    /\ DOMAIN SentProperties.d = {"name"}

RoutedOps == {"create_vertex", "update_vertex", "create_edge", "update_edge"}

IndexedScript(op) ==
    CASE op = "create_vertex" -> "create_indexed_vertex"
      [] op = "update_vertex" -> "update_indexed_vertex"
      [] op = "create_edge"   -> "create_indexed_edge"
      [] op = "update_edge"   -> "update_indexed_edge"

PlainVerb(op) == IF op \in {"create_vertex", "create_edge"} THEN "POST" ELSE "PUT"

Slash(a, b) == a \o <<"/">> \o b

\* the plain REST path of op on the entity with the integer ID n
PlainPath(op, n) ==
    CASE op = "create_vertex" -> <<"n", "o", "d", "e">>
      [] op = "update_vertex" ->
            Slash(Slash(<<"n", "o", "d", "e">>, NatToStr(n)),
                  <<"p", "r", "o", "p", "e", "r", "t", "i", "e", "s">>)
      [] op = "create_edge" ->
            Slash(Slash(<<"n", "o", "d", "e">>, NatToStr(n)),
                  <<"r", "e", "l", "a", "t", "i", "o", "n", "s", "h", "i", "p", "s">>)
      [] op = "update_edge" ->
            Slash(Slash(<<"r", "e", "l", "a", "t", "i", "o", "n", "s", "h", "i", "p">>, NatToStr(n)),
                  <<"p", "r", "o", "p", "e", "r", "t", "i", "e", "s">>)

\* the ID that op's path is built on (create_vertex has none)
PathId(op) ==
    IF op = "create_vertex" THEN PyInt(0)
    ELSE IF op = "create_edge" THEN call.args.outV
    ELSE call.args._id

\* C6: with auto-indexing on, create_vertex, update_vertex, create_edge and
\* update_edge send one request, the indexed script of the operation with the
\* configured vertex or edge index as index_name; with it off they send one
\* request, the plain REST one (POST node, PUT node/<id>/properties,
\* POST node/<outV>/relationships, PUT relationship/<id>/properties).
C6_AutoIndexRouting ==
    call.op \in RoutedOps =>
        /\ Len(sent) = 1
        /\ IF config.autoindex
           THEN /\ sent[1].verb = "POST"
                /\ sent[1].path = gremlin_path
                /\ sent[1].params.d.script = scripts_get(IndexedScript(call.op))
                /\ sent[1].params.d.params.d.index_name =
                        IF call.op \in {"create_vertex", "update_vertex"}
                        THEN config.vertex_index ELSE config.edge_index
           ELSE /\ sent[1].verb = PlainVerb(call.op)
                /\ sent[1].path # gremlin_path
                /\ PathId(call.op).t = "int" =>
                        sent[1].path = PlainPath(call.op, PathId(call.op).i)

\* update_edge went to the indexed script
C6_Witness ==
    /\ call.op = "update_edge"
    /\ config.autoindex
    /\ sent[1].path = gremlin_path
    /\ sent[1].params.d.params.d.index_name = config.edge_index

\* C7: cypher on a successful reply whose body is an object with a data array
\* of N one-element rows returns a Response with total_size = N whose results
\* yield, in row order, one Result per row wrapping the row's element.
C7_CypherRows ==
    (/\ call.op = "cypher"
     /\ reply.t = "reply"
     /\ reply.status \in 200..299
     /\ reply.body.kind = "json"
     /\ reply.body.value.t = "dict"
     /\ "data" \in DOMAIN reply.body.value.d
     /\ reply.body.value.d.data.t = "list") =>
        LET rows == reply.body.value.d.data.l
        IN /\ pc = "returned"
           /\ resp.total_size = Len(rows)
           /\ resp.results.t = "generator"
           /\ Len(yielded) <= Len(rows)
           /\ \A i \in 1..Len(yielded) : yielded[i].raw = rows[i].l[1]

----------------------------------------------------------------------------
(* Properties of the path builders *)

BuilderOps == {"_build_vertex_path", "_build_vertex_uri", "_build_edge_path"}

\* the string form of an ID
IdText(_id) == IF _id.t = "int" THEN NatToStr(_id.i) ELSE _id.s

\* s begins with "{" and ends with "}"
Braced(s) == s # <<>> /\ s[1] = "{" /\ s[Len(s)] = "}"

WithExtra(base, args) == IF args = <<>> THEN base ELSE Slash(base, args[1].s)

\* what the claim has builder op emit for the ID with string form s
Emitted(op, s, args) ==
    IF Braced(s) THEN WithExtra(s, args)
    ELSE CASE op = "_build_vertex_path" -> WithExtra(Slash(<<"n", "o", "d", "e">>, s), args)
           [] op = "_build_vertex_uri" ->
                Slash(Slash(<<"h", ":", "/", "/", "r">>, <<"n", "o", "d", "e">>), s)
           [] op = "_build_edge_path" ->
                Slash(<<"r", "e", "l", "a", "t", "i", "o", "n", "s", "h", "i", "p">>, s)

\* C8 as claimed: the builders emit the ID verbatim, without resource prefix or
\* root URI, exactly when its string form begins with "{" and ends with "}",
\* and the resource/id form for every other ID.
C8_PlaceholderAsClaimed ==
    acc.op \in BuilderOps => acc.out = Emitted(acc.op, IdText(acc._id), acc.args)

\* C8: for an ID whose string form holds no line break, the builders emit the
\* ID verbatim exactly when the string form begins with "{" and ends with "}",
\* and the resource/id form otherwise.
C8_Placeholder ==
    (acc.op \in BuilderOps /\ Positions(IdText(acc._id), "\n") = {}) =>
        acc.out = Emitted(acc.op, IdText(acc._id), acc.args)

\* the vertex path of a placeholder with an extra segment was built
C8_Witness ==
    /\ acc.op = "_build_vertex_path"
    /\ acc._id = PyStr(<<"{", "a", "}">>)
    /\ acc.args # <<>>
    /\ acc.out = <<"{", "a", "}", "/", "p", "r", "o", "p", "e", "r", "t", "i", "e", "s">>

----------------------------------------------------------------------------
(* Properties of the Result accessors *)

Vertex == Return(PyStr(<<"v", "e", "r", "t", "e", "x">>))

Edge == Return(PyStr(<<"e", "d", "g", "e">>))

\* the value of a field of the held Result's raw object, None when there is none
Field(key) ==
    IF cur.raw.t = "dict" /\ key \in DOMAIN cur.raw.d THEN cur.raw.d[key] ELSE None

\* the segment n places before the last of path, "" when path is that short
SegmentFromEnd(path, n) ==
    LET segments == split(path, "/")
    IN IF Len(segments) > n THEN segments[Len(segments) - n] ELSE <<>>

\* the public type of a kind token, an error for any token but the two
TypeOfToken(token, out) ==
    IF token = <<"n", "o", "d", "e">> THEN out = Vertex
    ELSE IF token = <<"r", "e", "l", "a", "t", "i", "o", "n", "s", "h", "i", "p">> THEN out = Edge
    ELSE ~out.ok

\* C9: get_type gives "vertex" when the second-to-last segment of the self URI
\* is "node", "edge" when it is "relationship", and an error for any other token
\* and for an absent self URI; get_index_class does the same with the segment
\* four from the end of the template URI's path.
C9_TypeMapping ==
    /\ acc.op = "get_type" =>
            IF Field("self").t = "str"
            THEN TypeOfToken(SegmentFromEnd(Field("self").s, 1), acc.out)
            ELSE ~acc.out.ok
    /\ acc.op = "get_index_class" =>
            /\ IF Field("template").t = "str"
               THEN TypeOfToken(SegmentFromEnd(urlsplit_path(Field("template").s), 3), acc.out)
               ELSE ~acc.out.ok
            /\ \A k1 \in Kinds, k2 \in Kinds, x \in {<<>>, <<"?", "a">>, <<"#", "a">>, <<"4", "2">>} :
                    cur.raw = PyDict([template |-> PyStr(Template(k1, k2, x))]) =>
                        TypeOfToken(k2, acc.out)

\* the class of an edge index was read off its template
C9_Witness ==
    /\ acc.op = "get_index_class"
    /\ cur.raw = PyDict([template |-> PyStr(Template(index_path, edge_path, <<"?", "a">>))])
    /\ acc.out = Edge

IdOps == {"get_id", "get_outV", "get_inV"}

LocatorKey(op) ==
    CASE op = "get_id" -> "self" [] op = "get_outV" -> "start" [] op = "get_inV" -> "end"

DigitPositions(s) == {i \in 1..Len(s) : s[i] \in DigitChars}

\* s is a decimal integer as int() reads one: a run of digits, a sign allowed
\* right before it, whitespace allowed around
Decimal(s) ==
    LET ds == DigitPositions(s)
    IN /\ ds # {}
       /\ ds = Min(ds)..Max(ds)
       /\ \A k \in (Max(ds) + 1)..Len(s) : s[k] \in Whitespace
       /\ \A k \in 1..(Min(ds) - 1) :
            \/ s[k] \in Whitespace
            \/ k = Min(ds) - 1 /\ s[k] \in {"+", "-"}

DecimalValue(s) ==
    LET ds == DigitPositions(s)
        n == DigitsToNat(SubSeq(s, Min(ds), Max(ds)))
    IN IF Min(ds) > 1 /\ s[Min(ds) - 1] = "-" THEN 0 - n ELSE n

\* what reading the ID off locator uri should give, with an empty locator
\* counted as absent or not
IdRead(uri, out, emptyIsAbsent) ==
    LET last == SegmentFromEnd(uri.s, 0)
    IN IF uri.t = "None" \/ (emptyIsAbsent /\ uri.s = <<>>) THEN out = Return(None)
       ELSE /\ IF Decimal(last) THEN out = Return(PyInt(DecimalValue(last)))
               ELSE ~out.ok /\ out.error = "ValueError"
            /\ \A n \in 0..99 : last = NatToStr(n) => out = Return(PyInt(n))

\* C10 as claimed: get_id, get_outV and get_inV give the integer of the decimal
\* last segment of the self, start or end locator, absent when the field is
\* absent, and the decode error for any present locator whose last segment is
\* not a decimal integer.
C10_IdAsClaimed ==
    (acc.op \in IdOps /\ cur.raw.t = "dict" /\ Field(LocatorKey(acc.op)).t \in {"None", "str"}) =>
        IdRead(Field(LocatorKey(acc.op)), acc.out, FALSE)

\* C10: the same, with an empty locator giving absent like an absent one.
C10_Id ==
    (acc.op \in IdOps /\ cur.raw.t = "dict" /\ Field(LocatorKey(acc.op)).t \in {"None", "str"}) =>
        IdRead(Field(LocatorKey(acc.op)), acc.out, TRUE)

\* the ID 42 was read off a node locator
C10_Witness ==
    /\ acc.op = "get_id"
    /\ cur.raw = PyDict([self |-> PyStr(<<"h", ":", "/", "/", "r", "/", "n", "o", "d", "e", "/", "4", "2">>)])
    /\ acc.out = Return(PyInt(42))

\* the held Result is over a JSON object whose locator for op is a string or absent
LocatorRead(op) ==
    /\ acc.op = op
    /\ cur.raw.t = "dict"
    /\ Field(LocatorKey(op)).t \in {"None", "str"}

\* C11 as claimed: get_id, get_outV and get_inV give an integer or absent and
\* raise no error for every locator: absent, empty, well-formed or malformed.
C11_NeverCrashesAsClaimed ==
    \A op \in IdOps :
        LocatorRead(op) => /\ acc.out.ok
                           /\ acc.out.value.t \in {"int", "None"}

\* C11: get_id, get_outV and get_inV raise no error exactly for the locators
\* that are absent, empty, or end in a decimal integer after the last "/", and
\* then give an integer or absent; for any other locator they raise ValueError.
C11_NeverCrashes ==
    \A op \in IdOps :
        LocatorRead(op) =>
            LET uri == Field(LocatorKey(op))
                readable == \/ uri.t = "None"
                            \/ uri.s = <<>>
                            \/ Decimal(SegmentFromEnd(uri.s, 0))
            IN /\ acc.out.ok <=> readable
               /\ acc.out.ok => acc.out.value.t \in {"int", "None"}
               /\ ~acc.out.ok => acc.out.error = "ValueError"

\* the start vertex was read off a locator with no "/" at all
C11_Witness ==
    /\ acc.op = "get_outV"
    /\ cur.raw = PyDict([start |-> PyStr(<<"4", "2">>)])
    /\ acc.out = Return(PyInt(42))

----------------------------------------------------------------------------
(* Properties of the index operations *)

CreateIndexOps == {"create_vertex_index", "create_edge_index"}

GetIndexOps == {"get_vertex_index", "get_edge_index"}

\* the Response returned holds one Result that reports name as its index name
Named(name) ==
    /\ pc = "returned"
    /\ err = "none"
    /\ resp.results.t = "Result"
    /\ get_index_name(resp.results.obj) = Return(name)

\* the reply is 2xx and its body decodes to a JSON object
ObjectReply ==
    /\ reply.t = "reply"
    /\ reply.status \in 200..299
    /\ reply.body.kind = "json"
    /\ reply.body.value.t = "dict"

\* C12: a create_vertex_index or create_edge_index call that returns, and any
\* answered 2xx with an object that has fields, gives a Result reporting the
\* caller's index name; get_vertex_index and get_edge_index give such a Result
\* when the listing has an object under that name, whatever name it carried,
\* and absent results without an error when the listing has no such entry or
\* the body is empty.
C12_IndexName ==
    /\ call.op \in CreateIndexOps =>
            /\ pc = "returned" => Named(call.args.index_name)
            /\ (ObjectReply /\ DOMAIN reply.body.value.d # {}) =>
                    Named(call.args.index_name)
    /\ (call.op \in GetIndexOps /\ ObjectReply) =>
            LET listing == reply.body.value
                k == key_of(listing, call.args.index_name)
            IN /\ (k # "" /\ listing.d[k].t = "dict") =>
                    /\ Named(call.args.index_name)
                    /\ \A f \in DOMAIN listing.d[k] .d \ {"name"} :
                            resp.results.obj.raw.d[f] = listing.d[k].d[f]
               /\ k = "" => /\ pc = "returned" /\ err = "none"
                            /\ resp.results = None
    /\ (call.op \in GetIndexOps /\ reply.t = "reply" /\ reply.status \in 200..299
            /\ reply.body.kind = "empty") =>
            /\ pc = "returned" /\ err = "none"
            /\ resp.results = None

\* the edge index was found in a listing whose entry carried another name
C12_Witness ==
    /\ call.op = "get_edge_index"
    /\ ObjectReply
    /\ "edge" \in DOMAIN reply.body.value.d
    /\ reply.body.value.d.edge.t = "dict"
    /\ "name" \in DOMAIN reply.body.value.d.edge.d
    /\ reply.body.value.d.edge.d.name = PyStr(<<"a">>)
    /\ Named(PyStr(<<"e", "d", "g", "e">>))

MembershipOps ==
    {"put_vertex", "lookup_vertex", "query_vertex", "remove_vertex",
     "put_edge", "lookup_edge", "query_edge", "remove_edge"}

\* s begins with prefix
StartsWith(s, prefix) == Len(s) >= Len(prefix) /\ SubSeq(s, 1, Len(prefix)) = prefix

\* index/node/<index_name> or index/relationship/<index_name>, by the operation
IndexPath(op, index_name) ==
    Slash(Slash(<<"i", "n", "d", "e", "x">>,
                IF op \in {"put_vertex", "lookup_vertex", "query_vertex", "remove_vertex"}
                THEN <<"n", "o", "d", "e">>
                ELSE <<"r", "e", "l", "a", "t", "i", "o", "n", "s", "h", "i", "p">>),
          index_name.s)

\* C13: every index-membership operation, called with an integer ID where it
\* takes one, sends one request whose path is under index/node/<index_name> or
\* index/relationship/<index_name>, and does not fail before the request is sent.
C13_MembershipRequest ==
    (/\ call.op \in MembershipOps
     /\ "_id" \in DOMAIN call.args => call.args._id.t = "int") =>
        /\ Len(sent) = 1
        /\ err # "NameError"
        /\ StartsWith(sent[1].path, IndexPath(call.op, call.args.index_name))

----------------------------------------------------------------------------
(* Properties of the facade as a whole *)

\* the operations that build a request path from an entity ID
PathOps ==
    {"get_vertex", "update_vertex", "create_edge", "get_edge", "update_edge", "delete_edge"}

\* _id is a string that is a brace-delimited placeholder
IsPlaceholder(_id) == _id.t = "str" /\ Braced(_id.s) /\ Positions(_id.s, "\n") = {}

\* C14: every facade operation that builds its path from an entity ID sends,
\* for a placeholder ID, a path that begins with the placeholder verbatim in
\* place of node/<id> or relationship/<id>; create_edge also sends a
\* placeholder inV verbatim as the target URI.
C14_FacadePlaceholder ==
    (/\ call.op \in PathOps
     /\ Len(sent) = 1
     /\ sent[1].path # gremlin_path) =>
        /\ IsPlaceholder(PathId(call.op)) =>
                StartsWith(sent[1].path, PathId(call.op).s)
        /\ (call.op = "create_edge" /\ IsPlaceholder(call.args.inV)) =>
                sent[1].params.d.to = PyStr(call.args.inV.s)

\* C15: every Response a facade operation returns, post-processed or not, has
\* total_size 0 when results is absent, 1 when results is a single Result, and
\* N when results is a sequence over N elements.
C15_SizeCountsResults ==
    pc = "returned" =>
        CASE resp.results.t = "None"      -> resp.total_size = 0
          [] resp.results.t = "Result"    -> resp.total_size = 1
          [] resp.results.t = "generator" -> resp.total_size = Len(resp.results.source)

\* C16: results built from an array body of N elements are lazy, forward-only
\* and single-pass: the step that constructs the Response wraps nothing; every
\* later step leaves total_size at N and either wraps exactly the next
\* element, once, or wraps nothing; and once N elements were yielded no step
\* yields another.
C16_LazySinglePass ==
    [][ /\ (~Decoded("list") /\ Decoded("list")') =>
                (/\ yielded' = <<>>
                 /\ resp'.results.pos = 0
                 /\ resp'.total_size = Len(reply'.body.value.l))
        /\ Decoded("list") =>
                (LET array == reply.body.value.l
                     pos == resp.results.pos
                 IN /\ resp'.total_size = Len(array)
                    /\ resp'.results.source = array
                    /\ \/ /\ resp'.results.pos = pos
                          /\ yielded' = yielded
                       \/ /\ pos < Len(array)
                          /\ resp'.results.pos = pos + 1
                          /\ yielded' = Append(yielded, Neo4jResult(array[pos + 1])))
      ]_vars

\* a one-element array was iterated past its end
C16_Witness ==
    /\ Decoded("list")
    /\ Len(reply.body.value.l) = 1
    /\ resp.total_size = 1
    /\ resp.results.pos = 1
    /\ yielded = << Neo4jResult(reply.body.value.l[1]) >>
    /\ StopIteration

\* C17: an operation sends at most one request per call, and exactly one when
\* it returns a Response; when the request or the construction of its Response
\* raised, the operation raised that error and returned no Response.
C17_OneRequest ==
    call.op # "none" =>
        /\ Len(sent) <= 1
        /\ pc = "returned" => (Len(sent) = 1 /\ resp # NoResponse /\ request_send(reply).ok)
        /\ pc = "raised" => resp = NoResponse
        /\ (Len(sent) = 1 /\ ~request_send(reply).ok) =>
               (pc = "raised" /\ err = request_send(reply).error)

\* get_vertex_index returned the named index after the one listing request
C17_Witness ==
    /\ call.op = "get_vertex_index"
    /\ pc = "returned"
    /\ sent = << get_vertex_indices >>
    /\ resp.results.t = "Result"

=============================================================================
